---- MODULE Spec2Model ----
(***************************************************************************)
(* Model of the question-bank repository:                                  *)
(*   - QuestionBank (src/src/entities/question_bank.py, the pydantic       *)
(*     model) and its older sibling (src/qb/question_bank.py),             *)
(*   - Question (src/src/qb/question.py),                                  *)
(*   - LocalJsonDB save/load (src/src/data_access/local_json_db.py),       *)
(*     and the older loader                                                *)
(*     (src/src/data_storage/database/json_database.py),                   *)
(*   - ImgReshaper (src/src/data_formatting/img_reshaper.py and            *)
(*     src/src/data_cleaning/img_reshaper.py).                             *)
(* Strings whose characters matter (chapter descriptions, file paths) are  *)
(* sequences; everything else is an atom.                                  *)
(***************************************************************************)
EXTENDS Integers, Sequences, FiniteSets, TLC

VARIABLES
    impl,      \* which QuestionBank class is in use: "entities" or "qb"
    qb,        \* the QuestionBank object (its fields)
    last,      \* the last call made on the bank and the exception it raised
    held,      \* the set get_qids_by_chapter last returned to the caller
    q_obj,     \* a Question object (src/src/qb/question.py); alive once constructed
    heap,      \* the mutable containers (sets, lists) allocated so far, by reference
    handles,   \* references to containers that accessors returned to the caller
    qlast,     \* the last call made on the Question and the exception it raised
    db,        \* the LocalJsonDB object (its _db_file_path and _img_dir)
    fs,        \* the paths that exist in the file system (files and directories)
    doc,       \* the content of the database file
    loaded,    \* the bank returned by the last load()
    dbres,     \* the last call made on the database and the exceptions raised
    reshaper,  \* the ImgReshaper object the caller holds (its attributes)
    disk,      \* the image files: path -> image
    rres       \* the last call made on the reshaper and what it produced

bankVars == <<impl, qb, last, held>>
questionVars == <<q_obj, heap, handles, qlast>>
dbVars == <<db, fs, doc, loaded, dbres>>
reshapeVars == <<reshaper, disk, rres>>
vars == <<impl, qb, last, held, q_obj, heap, handles, qlast, db, fs, doc, loaded, dbres,
          reshaper, disk, rres>>

\* ------------------------------------------------------------------------
\* Bounds and input pools
\* ------------------------------------------------------------------------
MaxChapter == 2

\* chapter numbers callers pass: 0 is not a positive integer
ChapterNums == 0..MaxChapter

\* chapter descriptions, as character sequences: whitespace-only (empty once
\* trimmed) and two valid ones (one with leading whitespace)
Descriptions == { <<" ">>, <<"a">>, <<" ", "b">> }

\* None, where a path or a list may also stand
None == <<"None">>
NoExc == "no exception"

EmptyMap == [x \in {} |-> x]

\* ------------------------------------------------------------------------
\* str.strip(): drop leading and trailing whitespace
\* ------------------------------------------------------------------------
RECURSIVE LStrip(_)
LStrip(s) ==
    IF s = <<>> THEN <<>>
    ELSE IF Head(s) = " " THEN LStrip(Tail(s)) ELSE s

RECURSIVE RStrip(_)
RStrip(s) ==
    IF s = <<>> THEN <<>>
    ELSE IF s[Len(s)] = " " THEN RStrip(SubSeq(s, 1, Len(s) - 1)) ELSE s

Strip(s) == RStrip(LStrip(s))

\* ------------------------------------------------------------------------
\* Question objects handed to the bank: two distinct objects that share the
\* qid "q1", one without and one with an image.
\* ------------------------------------------------------------------------
MkQuestion(qid, text, answers, correct, img) ==
    [qid |-> qid, question |-> text, answers |-> answers,
     correct_answer |-> correct, img_path |-> img,
     tags |-> <<>>, keywords |-> <<>>]

DirD == <<"D">>
DirE == <<"E">>

Questions ==
    { MkQuestion("q1", "x?", {"a", "b"}, "a", None),
      MkQuestion("q1", "y?", {"a", "b"}, "b", DirD \o <<"/", "1", ".", "jpg">>) }

\* ------------------------------------------------------------------------
\* QuestionBank, src/src/entities/question_bank.py
\* ------------------------------------------------------------------------
EmptyBank(img_dir) ==
    [img_dir |-> img_dir, qids |-> {}, chapters |-> EmptyMap,
     chap_num_to_ids |-> EmptyMap, id_to_q |-> EmptyMap]

\* dict[key] = value
Put(map, key, value) ==
    [k \in DOMAIN map \cup {key} |-> IF k = key THEN value ELSE map[k]]

\* validate_chapters: TRUE iff it returns without raising ValueError
validate_chapters(chapters) ==
    \A n \in DOMAIN chapters : ~(n <= 0) /\ Strip(chapters[n]) # <<>>

\* add_chapter that stores unconditionally: an existing number gets the new
\* description and a fresh membership set
Entities_add_chapter_Overwrite(b, chapter_num, description) ==
    LET stored == [b EXCEPT
                     !.chapters = Put(b.chapters, chapter_num, description),
                     !.chap_num_to_ids = Put(b.chap_num_to_ids, chapter_num, {})]
    IN [qb |-> stored,
        exc |-> IF validate_chapters(stored.chapters) THEN NoExc ELSE "ValueError"]

\* add_chapter that records the description but forgets the membership set
Entities_add_chapter_NoMembershipSet(b, chapter_num, description) ==
    LET stored == IF chapter_num \notin DOMAIN b.chapters
                  THEN [b EXCEPT
                          !.chapters = Put(b.chapters, chapter_num, description)]
                  ELSE b
    IN [qb |-> stored,
        exc |-> IF validate_chapters(stored.chapters) THEN NoExc ELSE "ValueError"]

\* add_chapter: store when absent, then validate the whole dict
Entities_add_chapter(b, chapter_num, description) ==
    LET stored == IF chapter_num \notin DOMAIN b.chapters
                  THEN [b EXCEPT
                          !.chapters = Put(b.chapters, chapter_num, description),
                          !.chap_num_to_ids = Put(b.chap_num_to_ids, chapter_num, {})]
                  ELSE b
    IN [qb |-> stored,
        exc |-> IF validate_chapters(stored.chapters) THEN NoExc ELSE "ValueError"]

\* add_question that keeps the object already stored under the qid
Entities_add_question_KeepFirst(b, question, chapter_num) ==
    IF chapter_num \notin DOMAIN b.chapters
    THEN [qb |-> b, exc |-> "KeyError"]
    ELSE [qb |-> [b EXCEPT
                    !.qids = @ \cup {question.qid},
                    !.chap_num_to_ids[chapter_num] = @ \cup {question.qid},
                    !.id_to_q = IF question.qid \in DOMAIN @ THEN @
                                ELSE Put(@, question.qid, question)],
          exc |-> NoExc]

\* add_question: guard on the chapter, then register in all three collections
Entities_add_question(b, question, chapter_num) ==
    IF chapter_num \notin DOMAIN b.chapters
    THEN [qb |-> b, exc |-> "KeyError"]
    ELSE [qb |-> [b EXCEPT
                    !.qids = @ \cup {question.qid},
                    !.chap_num_to_ids[chapter_num] = @ \cup {question.qid},
                    !.id_to_q = Put(@, question.qid, question)],
          exc |-> NoExc]

\* ------------------------------------------------------------------------
\* QuestionBank, src/qb/question_bank.py (plain class)
\* ------------------------------------------------------------------------
Qb_add_chapter(b, chapter_num, description) ==
    IF chapter_num \notin DOMAIN b.chapters
    THEN [qb |-> [b EXCEPT
                    !.chapters = Put(b.chapters, chapter_num, description),
                    !.chap_num_to_ids = Put(b.chap_num_to_ids, chapter_num, {})],
          exc |-> NoExc]
    ELSE [qb |-> b, exc |-> "ValueError"]

\* no guard: _ids.add runs before the dict lookup that raises KeyError
Qb_add_question(b, question, chapter_num) ==
    LET b1 == [b EXCEPT !.qids = @ \cup {question.qid}]
    IN IF chapter_num \notin DOMAIN b1.chap_num_to_ids
       THEN [qb |-> b1, exc |-> "KeyError"]
       ELSE [qb |-> [b1 EXCEPT
                       !.chap_num_to_ids[chapter_num] = @ \cup {question.qid},
                       !.id_to_q = Put(@, question.qid, question)],
             exc |-> NoExc]

\* dispatch on the class in use
add_chapter(b, chapter_num, description) ==
    IF impl = "entities" THEN Entities_add_chapter(b, chapter_num, description)
    ELSE Qb_add_chapter(b, chapter_num, description)

add_question(b, question, chapter_num) ==
    IF impl = "entities" THEN Entities_add_question(b, question, chapter_num)
    ELSE Qb_add_question(b, question, chapter_num)

\* ------------------------------------------------------------------------
\* get_qids_by_chapter: the set object handed to the caller.  A "copy" is a
\* new set with its own elements; a "member" is the very set the bank keeps
\* in chap_num_to_ids for that chapter.
\* ------------------------------------------------------------------------
\* the caller holds no set yet
NoSet == [kind |-> "none"]

\* src/src/entities/question_bank.py: self.chap_num_to_ids[chap_num].copy()
Entities_get_qids_by_chapter(b, chap_num) ==
    IF chap_num \notin DOMAIN b.chapters THEN [set |-> NoSet, exc |-> "LookupError"]
    ELSE IF chap_num \notin DOMAIN b.chap_num_to_ids
    THEN [set |-> NoSet, exc |-> "KeyError"]
    ELSE [set |-> [kind |-> "copy", val |-> b.chap_num_to_ids[chap_num]],
          exc |-> NoExc]

\* src/qb/question_bank.py: self._chap_num_to_ids[chap_num]
Qb_get_qids_by_chapter(b, chap_num) ==
    IF chap_num \notin DOMAIN b.chapters THEN [set |-> NoSet, exc |-> "LookupError"]
    ELSE IF chap_num \notin DOMAIN b.chap_num_to_ids
    THEN [set |-> NoSet, exc |-> "KeyError"]
    ELSE [set |-> [kind |-> "member", chapter |-> chap_num], exc |-> NoExc]

\* the elements of a set object, read now
Elements(b, set) ==
    IF set.kind = "copy" THEN set.val
    ELSE IF set.kind = "member" THEN b.chap_num_to_ids[set.chapter]
    ELSE {}

\* ------------------------------------------------------------------------
\* Calls on the bank
\* ------------------------------------------------------------------------
\* get_question: the stored object, or LookupError
get_question(b, q_id) ==
    IF q_id \in b.qids THEN b.id_to_q[q_id] ELSE "LookupError"

\* ------------------------------------------------------------------------
\* Calls on the bank.  last.known records whether the key passed (chapter
\* number for add_chapter, qid for add_question) was registered before the
\* call.
\* ------------------------------------------------------------------------
AddChapter(num, desc) ==
    /\ qb' = add_chapter(qb, num, desc).qb
    /\ last' = [op |-> "add_chapter", exc |-> add_chapter(qb, num, desc).exc,
                known |-> num \in DOMAIN qb.chapters]
    /\ UNCHANGED <<impl, held, questionVars, dbVars, reshapeVars>>

AddQuestion(q, num) ==
    /\ qb' = add_question(qb, q, num).qb
    /\ last' = [op |-> "add_question", exc |-> add_question(qb, q, num).exc,
                known |-> q.qid \in qb.qids]
    /\ UNCHANGED <<impl, held, questionVars, dbVars, reshapeVars>>

BankIdle ==
    /\ qb = EmptyBank(DirD)
    /\ last = [op |-> "init", exc |-> NoExc, known |-> FALSE]
    /\ held = NoSet

QuestionIdle ==
    /\ q_obj = [alive |-> FALSE]
    /\ heap = <<>>
    /\ handles = {}
    /\ qlast = [op |-> "init", exc |-> NoExc]

\* the directories and image files that exist before the first call
InitialFiles ==
    { DirD, DirD \o <<"/", "1", ".", "jpg">>, DirD \o <<"/", "q1", ".", "jpg">>,
      DirE, DirE \o <<"/", "q2", ".", "jpg">> }

\* the two LocalJsonDB classes: data_access.local_json_db and the older
\* data_storage.database.json_database
DbClasses == {"data_access", "data_storage"}

\* database file paths: one in the working directory, one in a directory
\* that does not exist
DbFile == <<"db", ".", "json">>
DbFileNoDir == <<"nodir", "/", "db", ".", "json">>

\* an image directory that nobody has created yet
DirMissing == <<"M">>

\* no call made on the database yet
DbStart ==
    [op |-> "init", exc |-> NoExc, cause |-> NoExc, save_exc |-> "not called",
     ret |-> None]

DbIdle ==
    /\ db = [cls |-> "data_access", file_path |-> DbFile, img_dir |-> DirD]
    /\ fs = InitialFiles
    /\ doc = [kind |-> "absent"]
    /\ loaded = EmptyBank(DirD)
    /\ dbres = DbStart

\* no image; no ImgReshaper held by the caller
NoImage == [kind |-> "none"]

\* an instance before __init__ has run: no attribute is set
NewObject(variant) ==
    [variant |-> variant, attrs |-> {}, _size |-> <<0, 0>>, _buffer_image |-> NoImage]

NoReshaper == NewObject("none")

ReshapeStart ==
    [op |-> "init", exc |-> NoExc, path |-> <<>>, target |-> <<0, 0>>,
     input |-> NoImage, rescaled |-> NoImage, output |-> NoImage]

ReshapeIdle ==
    /\ reshaper = NoReshaper
    /\ disk = EmptyMap
    /\ rres = ReshapeStart

InitBank ==
    /\ impl \in {"entities", "qb"}
    /\ BankIdle
    /\ QuestionIdle
    /\ DbIdle
    /\ ReshapeIdle

CallAddChapter == \E num \in ChapterNums, desc \in Descriptions : AddChapter(num, desc)
CallAddQuestion == \E q \in Questions, num \in ChapterNums : AddQuestion(q, num)

NextBank ==
    \/ CallAddChapter
    \/ CallAddQuestion

SpecBank == InitBank /\ [][NextBank]_vars

\* ------------------------------------------------------------------------
\* A caller that also asks for the qids of a chapter and changes the set it
\* was given
\* ------------------------------------------------------------------------
\* what a caller may put into or take out of the set
CallerQids == {"q1", "test_id"}

GetQidsByChapter(chap_num) ==
    LET r == IF impl = "entities" THEN Entities_get_qids_by_chapter(qb, chap_num)
             ELSE Qb_get_qids_by_chapter(qb, chap_num)
    IN /\ held' = IF r.exc = NoExc THEN r.set ELSE held
       /\ last' = [op |-> "get_qids_by_chapter", exc |-> r.exc,
                   known |-> chap_num \in DOMAIN qb.chapters]
       /\ UNCHANGED <<impl, qb, questionVars, dbVars, reshapeVars>>

\* set.add / set.discard on the set the caller holds: a member set is the
\* bank's own object, a copy is not
CallerQidsAdd(x) ==
    /\ held # NoSet
    /\ IF held.kind = "member"
       THEN /\ qb' = [qb EXCEPT !.chap_num_to_ids[held.chapter] = @ \cup {x}]
            /\ held' = held
       ELSE /\ held' = [held EXCEPT !.val = @ \cup {x}]
            /\ qb' = qb
    /\ last' = [op |-> "caller set.add", exc |-> NoExc, known |-> FALSE]
    /\ UNCHANGED <<impl, questionVars, dbVars, reshapeVars>>

CallerQidsDiscard(x) ==
    /\ held # NoSet
    /\ IF held.kind = "member"
       THEN /\ qb' = [qb EXCEPT !.chap_num_to_ids[held.chapter] = @ \ {x}]
            /\ held' = held
       ELSE /\ held' = [held EXCEPT !.val = @ \ {x}]
            /\ qb' = qb
    /\ last' = [op |-> "caller set.discard", exc |-> NoExc, known |-> FALSE]
    /\ UNCHANGED <<impl, questionVars, dbVars, reshapeVars>>

CallGetQidsByChapter == \E num \in ChapterNums : GetQidsByChapter(num)
CallCallerQidsAdd == \E x \in CallerQids : CallerQidsAdd(x)
CallCallerQidsDiscard == \E x \in CallerQids : CallerQidsDiscard(x)

\* the description plays no part in what the caller does with the set
CallerAddChapter == \E num \in ChapterNums : AddChapter(num, <<"a">>)

NextBankCaller ==
    \/ CallerAddChapter
    \/ CallAddQuestion
    \/ CallGetQidsByChapter
    \/ CallCallerQidsAdd
    \/ CallCallerQidsDiscard

SpecBankCaller == InitBank /\ [][NextBankCaller]_vars

\* ------------------------------------------------------------------------
\* Properties of the bank
\* ------------------------------------------------------------------------
ChaptersOf(b, qid) == {c \in DOMAIN b.chap_num_to_ids : qid \in b.chap_num_to_ids[c]}

AllMembers(b) == UNION {b.chap_num_to_ids[c] : c \in DOMAIN b.chap_num_to_ids}

\* C1: in every state reached by add_chapter/add_question calls on the
\* pydantic bank (none of which stored an invalid chapter), every qid in
\* qids is a member of exactly one chapter's membership set.
C1_ExactlyOneChapter ==
    (impl = "entities" /\ validate_chapters(qb.chapters)) =>
        \A qid \in qb.qids : Cardinality(ChaptersOf(qb, qid)) = 1

\* C2: add_question with a chapter number that is not in chapters raises
\* KeyError and leaves every field of the bank as it was.
C2_MissingChapterLeavesBankUnchanged ==
    [][\A q \in Questions, num \in ChapterNums :
          (AddQuestion(q, num) /\ num \notin DOMAIN qb.chapters)
              => (last'.exc = "KeyError" /\ qb' = qb)]_vars

\* C5: add_chapter is insert-only: with a number already in chapters the
\* call raises; with a new number it records the description and creates an
\* empty membership set.
C5_AddChapterInsertOnly ==
    [][\A num \in ChapterNums, desc \in Descriptions :
          AddChapter(num, desc) =>
              IF num \in DOMAIN qb.chapters
              THEN last'.exc # NoExc
              ELSE /\ qb'.chapters[num] = desc
                   /\ qb'.chap_num_to_ids[num] = {}]_vars

\* C6: in every reachable state, also the one an add_chapter call that
\* raised leaves behind, every chapter number is positive and every
\* description is non-empty after trimming.
C6_ChaptersValid ==
    impl = "entities" =>
        \A n \in DOMAIN qb.chapters : n > 0 /\ Strip(qb.chapters[n]) # <<>>

\* C7: in every reachable state, also after calls that raised, qids equals
\* the union of the membership sets and the key set of id_to_q.
C7_QidsEqualUnionAndKeys ==
    /\ qb.qids = AllMembers(qb)
    /\ qb.qids = DOMAIN qb.id_to_q

\* C8: in every reachable state chapters and chap_num_to_ids have the same
\* key set.
C8_SameChapterKeys ==
    DOMAIN qb.chapters = DOMAIN qb.chap_num_to_ids

\* a chapter added by a call that returned normally has an (empty)
\* membership set next to a chapter that already holds a question
C8_Witness ==
    /\ last.op = "add_chapter" /\ last.exc = NoExc /\ ~last.known
    /\ \E c \in DOMAIN qb.chapters : qb.chap_num_to_ids[c] = {}
    /\ \E c \in DOMAIN qb.chapters : qb.chap_num_to_ids[c] # {}

MaxHeap == 3
MaxTags == 2

\* a value that is not a str (an int, say), as an atom and as a path argument
NonStr == "<not a str>"
NonStrPath == <<NonStr>>
IsStr(x) == x # NonStr
IsStrPath(p) == p # NonStrPath

ImgArgs == {None, <<"D", "/", "q1", ".", "jpg">>, NonStrPath}
AnswerPool == {"a", "b", ""}
TagPool == {"t"}

\* _check_format with the test of the correct answer moved before the test
\* for an empty answer
_check_format_MembershipFirst(qid, text, answers, correct_answer, img_path) ==
    IF ~IsStr(qid) \/ qid = "" THEN "Question ID must be a non-empty string."
    ELSE IF ~IsStr(text) \/ text = "" THEN "Question text must be a non-empty string."
    ELSE IF Cardinality(answers) < 2 THEN "There must be at least two answers."
    ELSE IF ~IsStr(correct_answer) \/ correct_answer \notin answers
         THEN "Correct answer must be one of the provided answers."
    ELSE IF "" \in answers THEN "Answers cannot contain empty strings."
    ELSE IF img_path # None /\ ~IsStrPath(img_path)
         THEN "Image path must be a string or None."
    ELSE NoExc

\* _check_format: the message of the first check that fails, NoExc if none
\* does
_check_format(qid, text, answers, correct_answer, img_path) ==
    IF ~IsStr(qid) \/ qid = "" THEN "Question ID must be a non-empty string."
    ELSE IF ~IsStr(text) \/ text = "" THEN "Question text must be a non-empty string."
    ELSE IF Cardinality(answers) < 2 THEN "There must be at least two answers."
    ELSE IF "" \in answers THEN "Answers cannot contain empty strings."
    ELSE IF ~IsStr(correct_answer) \/ correct_answer \notin answers
         THEN "Correct answer must be one of the provided answers."
    ELSE IF img_path # None /\ ~IsStrPath(img_path)
         THEN "Image path must be a string or None."
    ELSE NoExc

SetObj(s) == [kind |-> "set", val |-> s]
ListObj(l) == [kind |-> "list", val |-> l]

Alloc(h, value) == Append(h, value)

\* get_answers returns self._answers itself
get_answers(q, h) == [ref |-> q.answers, heap |-> h]

\* get_tags returns self._tags.copy(), a new list
get_tags(q, h) == [ref |-> Len(h) + 1, heap |-> Alloc(h, h[q.tags])]

\* Question(qid, question, answers, correct_answer, img_path, tags): the
\* answers set (and the tags list, when one is passed) is stored as given;
\* tags None gives a new empty list.  The caller passes literals and keeps no
\* reference to them.  qlast keeps the arguments and the message raised.
Construct(qid, text, answers, correct, img, tags) ==
    LET h1 == Alloc(heap, SetObj(answers))
        ansRef == Len(h1)
        h2 == Alloc(h1, ListObj(IF tags = None THEN <<>> ELSE tags))
        tagRef == Len(h2)
        msg == _check_format(qid, text, answers, correct, img)
        args == [qid |-> qid, question |-> text, answers |-> answers,
                 correct_answer |-> correct, img_path |-> img]
    IN /\ ~q_obj.alive
       /\ Len(heap) + 2 <= MaxHeap
       /\ IF msg = NoExc
          THEN /\ q_obj' = [alive |-> TRUE, qid |-> qid, question |-> text, answers |-> ansRef,
                               correct_answer |-> correct, img_path |-> img,
                               tags |-> tagRef, chapter |-> ""]
               /\ heap' = h2
               /\ handles' = handles
               /\ qlast' = [op |-> "__init__", exc |-> NoExc, msg |-> NoExc,
                            args |-> args]
          ELSE /\ UNCHANGED <<q_obj, heap, handles>>
               /\ qlast' = [op |-> "__init__", exc |-> "IncorrectFormatError",
                            msg |-> msg, args |-> args]
       /\ UNCHANGED <<bankVars, dbVars, reshapeVars>>

GetAnswers ==
    /\ q_obj.alive
    /\ handles' = handles \cup {get_answers(q_obj, heap).ref}
    /\ heap' = get_answers(q_obj, heap).heap
    /\ qlast' = [op |-> "get_answers", exc |-> NoExc]
    /\ UNCHANGED <<q_obj, bankVars, dbVars, reshapeVars>>

GetTags ==
    /\ q_obj.alive
    /\ Len(heap) < MaxHeap
    /\ handles' = handles \cup {get_tags(q_obj, heap).ref}
    /\ heap' = get_tags(q_obj, heap).heap
    /\ qlast' = [op |-> "get_tags", exc |-> NoExc]
    /\ UNCHANGED <<q_obj, bankVars, dbVars, reshapeVars>>

\* set_tags stores tags.copy()
SetTags(tags) ==
    /\ q_obj.alive
    /\ Len(heap) < MaxHeap
    /\ heap' = Alloc(heap, ListObj(tags))
    /\ q_obj' = [q_obj EXCEPT !.tags = Len(heap) + 1]
    /\ qlast' = [op |-> "set_tags", exc |-> NoExc]
    /\ UNCHANGED <<handles, bankVars, dbVars, reshapeVars>>

\* add_tag appends unconditionally
AddTag(tag) ==
    /\ q_obj.alive
    /\ Len(heap[q_obj.tags].val) < MaxTags
    /\ heap' = [heap EXCEPT ![q_obj.tags].val = Append(@, tag)]
    /\ qlast' = [op |-> "add_tag", exc |-> NoExc]
    /\ UNCHANGED <<q_obj, handles, bankVars, dbVars, reshapeVars>>

\* set_img_path rejects anything that is neither None nor a str
SetImgPath(img) ==
    /\ q_obj.alive
    /\ IF img # None /\ ~IsStrPath(img)
       THEN /\ qlast' = [op |-> "set_img_path", exc |-> "IncorrectFormatError"]
            /\ UNCHANGED q_obj
       ELSE /\ qlast' = [op |-> "set_img_path", exc |-> NoExc]
            /\ q_obj' = [q_obj EXCEPT !.img_path = img]
    /\ UNCHANGED <<heap, handles, bankVars, dbVars, reshapeVars>>

\* set_chapter stores the tuple as given
SetChapter(chapter) ==
    /\ q_obj.alive
    /\ q_obj' = [q_obj EXCEPT !.chapter = chapter]
    /\ qlast' = [op |-> "set_chapter", exc |-> NoExc]
    /\ UNCHANGED <<heap, handles, bankVars, dbVars, reshapeVars>>

IsSetRef(r) == heap[r].kind = "set"

\* the caller changes a set it holds a reference to (set.add / set.discard)
CallerSetAdd(r, a) ==
    /\ r \in handles /\ IsSetRef(r)
    /\ heap' = [heap EXCEPT ![r].val = @ \cup {a}]
    /\ qlast' = [op |-> "caller set.add", exc |-> NoExc]
    /\ UNCHANGED <<q_obj, handles, bankVars, dbVars, reshapeVars>>

CallerSetDiscard(r, a) ==
    /\ r \in handles /\ IsSetRef(r)
    /\ heap' = [heap EXCEPT ![r].val = @ \ {a}]
    /\ qlast' = [op |-> "caller set.discard", exc |-> NoExc]
    /\ UNCHANGED <<q_obj, handles, bankVars, dbVars, reshapeVars>>

\* the caller appends to a list it holds a reference to
CallerListAppend(r, t) ==
    /\ r \in handles /\ ~IsSetRef(r)
    /\ Len(heap[r].val) < MaxTags
    /\ heap' = [heap EXCEPT ![r].val = Append(@, t)]
    /\ qlast' = [op |-> "caller list.append", exc |-> NoExc]
    /\ UNCHANGED <<q_obj, handles, bankVars, dbVars, reshapeVars>>

InitQuestion ==
    /\ impl = "entities"
    /\ BankIdle
    /\ QuestionIdle
    /\ DbIdle
    /\ ReshapeIdle

CallConstruct ==
    \E qid \in {"q1", "", NonStr}, text \in {"x?", ""},
       answers \in SUBSET AnswerPool, correct \in {"a", "c"},
       img \in ImgArgs, tags \in {None, <<>>, <<"t">>} :
        Construct(qid, text, answers, correct, img, tags)
CallSetTags == \E tags \in {<<>>, <<"t">>} : SetTags(tags)
CallAddTag == \E tag \in TagPool : AddTag(tag)
CallSetImgPath == \E img \in ImgArgs : SetImgPath(img)
CallSetChapter == \E c \in {<<1, "Signs">>} : SetChapter(c)
CallCallerSetAdd == \E r \in handles, a \in AnswerPool : CallerSetAdd(r, a)
CallCallerSetDiscard == \E r \in handles, a \in AnswerPool : CallerSetDiscard(r, a)
CallCallerListAppend == \E r \in handles, t \in TagPool : CallerListAppend(r, t)

NextQuestion ==
    \/ CallConstruct
    \/ GetAnswers
    \/ GetTags
    \/ CallSetTags
    \/ CallAddTag
    \/ CallSetImgPath
    \/ CallSetChapter
    \/ CallCallerSetAdd
    \/ CallCallerSetDiscard
    \/ CallCallerListAppend

SpecQuestion == InitQuestion /\ [][NextQuestion]_vars

\* C4: for every Question, correct_answer is an element of answers after
\* construction and after every successful mutation reachable through its
\* public interface (no call of which raised here).
C4_CorrectAnswerInAnswers ==
    q_obj.alive => q_obj.correct_answer \in heap[q_obj.answers].val

\* ------------------------------------------------------------------------
\* Helpers for the JSON document written by LocalJsonDB
\* ------------------------------------------------------------------------
DigitChars == <<"0", "1", "2", "3", "4", "5", "6", "7", "8", "9">>

\* str(int), the form json.dump gives to an int dictionary key
RECURSIVE IntToStr(_)
IntToStr(n) ==
    IF n < 0 THEN <<"-">> \o IntToStr(-n)
    ELSE IF n < 10 THEN <<DigitChars[n + 1]>>
    ELSE IntToStr(n \div 10) \o <<DigitChars[(n % 10) + 1]>>

DigitVal(c) == CHOOSE d \in 0..9 : DigitChars[d + 1] = c

RECURSIVE StrToNat(_)
StrToNat(s) ==
    IF Len(s) = 1 THEN DigitVal(s[1])
    ELSE 10 * StrToNat(SubSeq(s, 1, Len(s) - 1)) + DigitVal(s[Len(s)])

\* int(str)
StrToInt(s) == IF Head(s) = "-" THEN 0 - StrToNat(Tail(s)) ELSE StrToNat(s)

\* sorted(...) of a set of ints
RECURSIVE SortedInts(_)
SortedInts(S) ==
    IF S = {} THEN <<>>
    ELSE LET m == CHOOSE x \in S : \A y \in S : x <= y
         IN <<m>> \o SortedInts(S \ {m})

\* the qids in use, in lexicographic order; sorted(...) of a set of qids
QidOrder == <<"q1", "q2">>
SortedQids(S) == SelectSeq(QidOrder, LAMBDA q : q \in S)

\* list(a_set): the elements in some order; set(a_list)
RECURSIVE SetToList(_)
SetToList(S) ==
    IF S = {} THEN <<>>
    ELSE LET x == CHOOSE x \in S : TRUE IN <<x>> \o SetToList(S \ {x})

ListToSet(l) == {l[i] : i \in DOMAIN l}

\* path.split(".")[-1]: what follows the last "." (the whole path if none)
RECURSIVE LastDotPart(_)
LastDotPart(p) ==
    IF p = <<>> THEN <<>>
    ELSE IF p[Len(p)] = "." THEN <<>>
    ELSE LastDotPart(SubSeq(p, 1, Len(p) - 1)) \o <<p[Len(p)]>>

\* directory part of a path: what precedes the last "/" (empty if none)
RECURSIVE DirName(_)
DirName(p) ==
    IF p = <<>> THEN <<>>
    ELSE IF p[Len(p)] = "/" THEN SubSeq(p, 1, Len(p) - 1)
    ELSE DirName(SubSeq(p, 1, Len(p) - 1))

\* ------------------------------------------------------------------------
\* QuestionBank accessors used by the database
\* ------------------------------------------------------------------------
list_chapters(b) == SortedInts(DOMAIN b.chapters)

get_qid_list(b) == SortedQids(b.qids)

get_qids_by_chapter(b, chap_num) == b.chap_num_to_ids[chap_num]

describe_chapter(b, chap_num) == b.chapters[chap_num]

\* question_count(): chapter_num is None
question_count_total(b) == Cardinality(b.qids)

\* question_count(chapter_num)
question_count(b, chapter_num) == Cardinality(b.chap_num_to_ids[chapter_num])

\* ------------------------------------------------------------------------
\* LocalJsonDB, src/src/data_access/local_json_db.py
\* A document is the dictionary handed to json.dump: its dictionaries keep
\* insertion order, so chapters and chap_to_qids are sequences of
\* <<key, value>> pairs with the keys in the str form JSON gives them.
\* ------------------------------------------------------------------------
\* _make_img_path
_make_img_path(img_dir, q) ==
    IF q.img_path = None THEN <<>>
    ELSE img_dir \o <<"/", q.qid, ".">> \o LastDotPart(q.img_path)

\* the chapters that list qid, in ascending order
ChaptersListing(b, qid) ==
    SelectSeq(list_chapters(b), LAMBDA c : qid \in get_qids_by_chapter(b, c))

\* _serialize_chapter: the record written for qid while visiting chapter
QuestionRecord(img_dir, q, chapter) ==
    [qid |-> q.qid, question |-> q.question,
     answers |-> SetToList(q.answers),
     correct_answer |-> q.correct_answer,
     img_path |-> _make_img_path(img_dir, q),
     chapter |-> chapter,
     tags |-> q.tags, keywords |-> q.keywords]

\* _serialize_question_bank: chapters in list_chapters() order; a qid listed
\* by several chapters keeps the record of the last one visited
_serialize_question_bank(img_dir, b) ==
    LET chs == list_chapters(b)
        listed == UNION {get_qids_by_chapter(b, c) : c \in DOMAIN b.chapters}
    IN [chapters |-> [i \in 1..Len(chs) |->
                         <<IntToStr(chs[i]), describe_chapter(b, chs[i])>>],
        chap_to_qids |-> [i \in 1..Len(chs) |->
                         <<IntToStr(chs[i]),
                           SortedQids(get_qids_by_chapter(b, chs[i]))>>],
        questions |-> [qid \in listed |->
                         LET cs == ChaptersListing(b, qid)
                         IN QuestionRecord(img_dir, get_question(b, qid),
                                           cs[Len(cs)])],
        img_dir |-> img_dir]

\* shutil.copy2(cur, new): the exception it raises, NoExc if it copies
copy2_exc(files, cur, new) ==
    IF cur = new THEN "SameFileError"
    ELSE IF DirName(new) \notin files THEN "FileNotFoundError"
    ELSE NoExc

\* _copy_images: walk get_qid_list() from position i; stop at the first copy
\* that raises
RECURSIVE _copy_images(_, _, _, _)
_copy_images(img_dir, b, files, i) ==
    IF i > Len(get_qid_list(b)) THEN [fs |-> files, exc |-> NoExc]
    ELSE LET q == get_question(b, get_qid_list(b)[i])
             cur_path == q.img_path
             new_path == _make_img_path(img_dir, q)
         IN IF cur_path # None /\ cur_path # <<>> /\ cur_path \in files
            THEN IF copy2_exc(files, cur_path, new_path) # NoExc
                 THEN [fs |-> files, exc |-> copy2_exc(files, cur_path, new_path)]
                 ELSE _copy_images(img_dir, b, files \cup {new_path}, i + 1)
            ELSE _copy_images(img_dir, b, files, i + 1)

\* open(path, 'w'): the exception it raises, NoExc if it opens; a path without
\* a directory part lies in the working directory
open_w_exc(files, path) ==
    IF DirName(path) # <<>> /\ DirName(path) \notin files THEN "FileNotFoundError"
    ELSE NoExc

\* save that writes the document before it copies the images
save_WriteFirst(d, b, files, document) ==
    LET fs1 == files \cup {d.img_dir}
        data == _serialize_question_bank(d.img_dir, b)
        written == fs1 \cup {d.file_path}
        copied == IF d.img_dir # b.img_dir
                  THEN _copy_images(d.img_dir, b, written, 1)
                  ELSE [fs |-> written, exc |-> NoExc]
    IN IF open_w_exc(fs1, d.file_path) # NoExc
       THEN [fs |-> fs1, doc |-> document,
             exc |-> open_w_exc(fs1, d.file_path), ret |-> None]
       ELSE [fs |-> copied.fs, doc |-> [kind |-> "json", data |-> data],
             exc |-> copied.exc,
             ret |-> IF copied.exc = NoExc THEN <<"True">> ELSE None]

\* save: makedirs, serialize, copy images unless the directories are equal,
\* write the document; any exception is re-raised as it is
save(d, b, files, document) ==
    LET fs1 == files \cup {d.img_dir}
        data == _serialize_question_bank(d.img_dir, b)
        copied == IF d.img_dir # b.img_dir
                  THEN _copy_images(d.img_dir, b, fs1, 1)
                  ELSE [fs |-> fs1, exc |-> NoExc]
    IN IF copied.exc # NoExc
       THEN [fs |-> copied.fs, doc |-> document, exc |-> copied.exc, ret |-> None]
       ELSE IF open_w_exc(copied.fs, d.file_path) # NoExc
       THEN [fs |-> copied.fs, doc |-> document,
             exc |-> open_w_exc(copied.fs, d.file_path), ret |-> None]
       ELSE [fs |-> copied.fs \cup {d.file_path},
             doc |-> [kind |-> "json", data |-> data],
             exc |-> NoExc, ret |-> <<"True">>]

\* _get_img_path: None for a blank path, the path if it exists, otherwise
\* FileNotFoundError
_get_img_path(files, q_data) ==
    IF Strip(q_data.img_path) = <<>> THEN [path |-> None, exc |-> NoExc]
    ELSE IF q_data.img_path \in files THEN [path |-> q_data.img_path, exc |-> NoExc]
    ELSE [path |-> None, exc |-> "FileNotFoundError"]

\* _get_chapter_num: the first chapter whose list holds qid, 0 - 1 standing
\* for the None that makes it raise ValueError
_get_chapter_num(data, qid) ==
    IF "chap_to_qids" \notin DOMAIN data THEN [num |-> 0 - 1, exc |-> "KeyError"]
    ELSE LET hits == SelectSeq(data.chap_to_qids,
                               LAMBDA pair : qid \in ListToSet(pair[2]))
         IN IF hits = <<>> THEN [num |-> 0 - 1, exc |-> "ValueError"]
            ELSE [num |-> StrToInt(hits[1][1]), exc |-> NoExc]

\* a JSON string where a dictionary is expected
NotADict == <<"not", "_", "a", "_", "dict">>

\* _add_chapters from position i of the chapters dictionary; a string has no
\* items()
RECURSIVE _add_chapters(_, _, _)
_add_chapters(data, b, i) ==
    IF data.chapters = NotADict THEN [qb |-> b, exc |-> "AttributeError"]
    ELSE IF i > Len(data.chapters) THEN [qb |-> b, exc |-> NoExc]
    ELSE LET r == Entities_add_chapter(b, StrToInt(data.chapters[i][1]),
                                       data.chapters[i][2])
         IN IF r.exc # NoExc THEN [qb |-> r.qb, exc |-> r.exc]
            ELSE _add_chapters(data, r.qb, i + 1)

\* the Question built for one record of the document
LoadedQuestion(q_data, img_path) ==
    [qid |-> q_data.qid, question |-> q_data.question,
     answers |-> ListToSet(q_data.answers),
     correct_answer |-> q_data.correct_answer,
     img_path |-> img_path,
     tags |-> q_data.tags, keywords |-> q_data.keywords]

\* _add_questions over the qids not yet handled
RECURSIVE _add_questions(_, _, _, _)
_add_questions(data, b, files, todo) ==
    IF todo = <<>> THEN [qb |-> b, exc |-> NoExc]
    ELSE LET qid == Head(todo)
             q_data == data.questions[qid]
             chapter == _get_chapter_num(data, qid)
             img == _get_img_path(files, q_data)
             fmt == _check_format(q_data.qid, q_data.question,
                                  ListToSet(q_data.answers),
                                  q_data.correct_answer, img.path)
         IN IF chapter.exc # NoExc THEN [qb |-> b, exc |-> chapter.exc]
            ELSE IF img.exc # NoExc THEN [qb |-> b, exc |-> img.exc]
            ELSE IF chapter.num \notin DOMAIN b.chapters
                 THEN [qb |-> b, exc |-> "LookupError"]
            ELSE IF fmt # NoExc THEN [qb |-> b, exc |-> "IncorrectFormatError"]
            ELSE LET r == Entities_add_question(b, LoadedQuestion(q_data, img.path),
                                                chapter.num)
                 IN IF r.exc # NoExc THEN [qb |-> r.qb, exc |-> r.exc]
                    ELSE _add_questions(data, r.qb, files, Tail(todo))

\* _deserialize_question_bank: QuestionBank(img_dir=...) validates that the
\* directory exists
_deserialize_question_bank(d, data, files) ==
    IF d.img_dir \notin files THEN [qb |-> EmptyBank(d.img_dir), exc |-> "ValidationError"]
    ELSE IF "chapters" \notin DOMAIN data
    THEN [qb |-> EmptyBank(d.img_dir), exc |-> "KeyError"]
    ELSE LET withChapters == _add_chapters(data, EmptyBank(d.img_dir), 1)
         IN IF withChapters.exc # NoExc THEN withChapters
            ELSE IF "questions" \notin DOMAIN data
                 THEN [qb |-> withChapters.qb, exc |-> "KeyError"]
            ELSE _add_questions(data, withChapters.qb, files,
                                SortedQids(DOMAIN data.questions))

\* load without the test for a file that holds {}: json.load gives an empty
\* dictionary, which has no "chapters" key
load_NoEmptyCase(d, files, document) ==
    IF d.file_path \notin files
    THEN [qb |-> EmptyBank(d.img_dir), exc |-> "FileNotFoundError", cause |-> NoExc]
    ELSE LET r == IF document.kind = "empty"
                  THEN _deserialize_question_bank(d, EmptyMap, files)
                  ELSE IF document.kind = "invalid"
                  THEN [qb |-> EmptyBank(d.img_dir), exc |-> "JSONDecodeError"]
                  ELSE _deserialize_question_bank(d, document.data, files)
         IN IF r.exc # NoExc
            THEN [qb |-> EmptyBank(d.img_dir), exc |-> "ConnectionError",
                  cause |-> r.exc]
            ELSE [qb |-> r.qb, exc |-> NoExc, cause |-> NoExc]

\* load without the except clause: the exception raised inside the try
\* block reaches the caller as it is
load_NoWrap(d, files, document) ==
    IF d.file_path \notin files
    THEN [qb |-> EmptyBank(d.img_dir), exc |-> "FileNotFoundError", cause |-> NoExc]
    ELSE LET r == IF document.kind = "empty"
                  THEN [qb |-> EmptyBank(d.img_dir),
                        exc |-> IF d.img_dir \in files THEN NoExc
                                ELSE "ValidationError"]
                  ELSE IF document.kind = "invalid"
                  THEN [qb |-> EmptyBank(d.img_dir), exc |-> "JSONDecodeError"]
                  ELSE _deserialize_question_bank(d, document.data, files)
         IN IF r.exc # NoExc
            THEN [qb |-> EmptyBank(d.img_dir), exc |-> r.exc, cause |-> NoExc]
            ELSE [qb |-> r.qb, exc |-> NoExc, cause |-> NoExc]

\* load: FileNotFoundError without a file; a file that holds {} gives
\* QuestionBank(img_dir=...); json.load raises on text that is not JSON;
\* every exception raised after the existence check becomes ConnectionError,
\* whose message and context carry the original one (cause)
load(d, files, document) ==
    IF d.file_path \notin files
    THEN [qb |-> EmptyBank(d.img_dir), exc |-> "FileNotFoundError", cause |-> NoExc]
    ELSE LET r == IF document.kind = "empty"
                  THEN [qb |-> EmptyBank(d.img_dir),
                        exc |-> IF d.img_dir \in files THEN NoExc
                                ELSE "ValidationError"]
                  ELSE IF document.kind = "invalid"
                  THEN [qb |-> EmptyBank(d.img_dir), exc |-> "JSONDecodeError"]
                  ELSE _deserialize_question_bank(d, document.data, files)
         IN IF r.exc # NoExc
            THEN [qb |-> EmptyBank(d.img_dir), exc |-> "ConnectionError",
                  cause |-> r.exc]
            ELSE [qb |-> r.qb, exc |-> NoExc, cause |-> NoExc]

\* ------------------------------------------------------------------------
\* LocalJsonDB, src/src/data_storage/database/json_database.py: the older
\* loader, on the plain QuestionBank; it has no save
\* ------------------------------------------------------------------------
\* the chapter loop of _deserialize_question_bank, from position i
RECURSIVE Storage_add_chapters(_, _, _)
Storage_add_chapters(data, b, i) ==
    IF data.chapters = NotADict THEN [qb |-> b, exc |-> "AttributeError"]
    ELSE IF i > Len(data.chapters) THEN [qb |-> b, exc |-> NoExc]
    ELSE LET r == Qb_add_chapter(b, StrToInt(data.chapters[i][1]),
                                 data.chapters[i][2])
         IN IF r.exc # NoExc THEN [qb |-> r.qb, exc |-> r.exc]
            ELSE Storage_add_chapters(data, r.qb, i + 1)

\* the image path kept for a record: None when the file does not exist or
\* the path is empty
Storage_img_path(files, q_data) ==
    IF q_data.img_path \notin files \/ q_data.img_path = <<>> THEN None
    ELSE q_data.img_path

\* the question loop of _deserialize_question_bank over the qids not yet
\* handled: a record whose qid no chapter lists is skipped
RECURSIVE Storage_add_questions(_, _, _, _)
Storage_add_questions(data, b, files, todo) ==
    IF todo = <<>> THEN [qb |-> b, exc |-> NoExc]
    ELSE IF "chap_to_qids" \notin DOMAIN data THEN [qb |-> b, exc |-> "KeyError"]
    ELSE LET qid == Head(todo)
             q_data == data.questions[qid]
             hits == SelectSeq(data.chap_to_qids,
                               LAMBDA pair : qid \in ListToSet(pair[2]))
             img_path == Storage_img_path(files, q_data)
             fmt == _check_format(q_data.qid, q_data.question,
                                  ListToSet(q_data.answers),
                                  q_data.correct_answer, img_path)
         IN IF hits = <<>> THEN Storage_add_questions(data, b, files, Tail(todo))
            ELSE IF fmt # NoExc THEN [qb |-> b, exc |-> "IncorrectFormatError"]
            ELSE LET question == MkQuestion(q_data.qid, q_data.question,
                                            ListToSet(q_data.answers),
                                            q_data.correct_answer, img_path)
                     r == Qb_add_question(b, question, StrToInt(hits[1][1]))
                 IN IF r.exc # NoExc THEN [qb |-> r.qb, exc |-> r.exc]
                    ELSE Storage_add_questions(data, r.qb, files, Tail(todo))

\* _deserialize_question_bank: an empty bank when the document has no
\* chapters, otherwise the chapters and then the questions
Storage__deserialize_question_bank(d, data, files) ==
    IF "chapters" \notin DOMAIN data \/ data.chapters = <<>>
    THEN [qb |-> EmptyBank(d.img_dir), exc |-> NoExc]
    ELSE LET withChapters == Storage_add_chapters(data, EmptyBank(d.img_dir), 1)
         IN IF withChapters.exc # NoExc THEN withChapters
            ELSE IF "questions" \notin DOMAIN data
                 THEN [qb |-> withChapters.qb, exc |-> "KeyError"]
            ELSE Storage_add_questions(data, withChapters.qb, files,
                                       SortedQids(DOMAIN data.questions))

\* load: FileNotFoundError without a file; every exception raised after the
\* existence check becomes RuntimeError
Storage_load(d, files, document) ==
    IF d.file_path \notin files
    THEN [qb |-> EmptyBank(d.img_dir), exc |-> "FileNotFoundError", cause |-> NoExc]
    ELSE LET r == IF document.kind = "invalid"
                  THEN [qb |-> EmptyBank(d.img_dir), exc |-> "JSONDecodeError"]
                  ELSE IF document.kind = "empty"
                  THEN Storage__deserialize_question_bank(d, EmptyMap, files)
                  ELSE Storage__deserialize_question_bank(d, document.data, files)
         IN IF r.exc # NoExc
            THEN [qb |-> EmptyBank(d.img_dir), exc |-> "RuntimeError",
                  cause |-> r.exc]
            ELSE [qb |-> r.qb, exc |-> NoExc, cause |-> NoExc]

\* load of the class the database object belongs to
load_of(d, files, document) ==
    IF d.cls = "data_access" THEN load(d, files, document)
    ELSE Storage_load(d, files, document)

\* ------------------------------------------------------------------------
\* A caller that fills a bank, saves it and loads it back
\* ------------------------------------------------------------------------
\* questions with the fields the document stores: one without an image, one
\* whose image file is named after the qid, one whose image file is not and
\* one whose image already lies in the other directory
DbQuestions ==
    { [MkQuestion("q1", "x?", {"a", "b"}, "a", None)
           EXCEPT !.tags = <<"t">>, !.keywords = <<"k">>],
      MkQuestion("q1", "y?", {"a", "b"}, "b", DirD \o <<"/", "q1", ".", "jpg">>),
      MkQuestion("q2", "z?", {"a", "c"}, "c", DirD \o <<"/", "1", ".", "jpg">>),
      MkQuestion("q2", "z?", {"a", "c"}, "c", DirE \o <<"/", "q2", ".", "jpg">>) }

\* a record of the "questions" dictionary of a document
DocQuestion(qid, img_path, chapter) ==
    [qid |-> qid, question |-> "x?", answers |-> <<"a", "b">>,
     correct_answer |-> "a", img_path |-> img_path, chapter |-> chapter,
     tags |-> <<>>, keywords |-> <<>>]

\* a document with the three dictionaries: chapters 1 and 2, the qids each
\* lists, and one record for q1
Doc(listed1, listed2, img_path, chapter) ==
    [kind |-> "json",
     data |-> [chapters |-> << <<IntToStr(1), <<"a">> >>, <<IntToStr(2), <<"a">> >> >>,
               chap_to_qids |-> << <<IntToStr(1), listed1>>, <<IntToStr(2), listed2>> >>,
               questions |-> [qid \in {"q1"} |-> DocQuestion(qid, img_path, chapter)],
               img_dir |-> DirD]]

\* the files a load may find: none, the literal {}, text that is not JSON, a
\* document with the "chapters" key only, one whose "chapters" is a string,
\* and documents whose record for q1
\* is listed by chapter 2 (its own "chapter" field says 1), is listed by no
\* chapter, or names an image file that does not exist
Documents ==
    { [kind |-> "absent"], [kind |-> "empty"], [kind |-> "invalid"],
      [kind |-> "json", data |-> [chapters |-> <<>>]],
      [kind |-> "json", data |-> [chapters |-> NotADict, chap_to_qids |-> <<>>,
                                  questions |-> EmptyMap, img_dir |-> DirD]],
      Doc(<<>>, <<"q1">>, DirD \o <<"/", "q1", ".", "jpg">>, 1),
      Doc(<<>>, <<>>, <<>>, 1),
      Doc(<<"q1">>, <<>>, DirD \o <<"/", "gone", ".", "jpg">>, 1) }

DbSave ==
    /\ db.cls = "data_access"
    /\ fs' = save(db, qb, fs, doc).fs
    /\ doc' = save(db, qb, fs, doc).doc
    /\ dbres' = [op |-> "save", exc |-> save(db, qb, fs, doc).exc,
                 cause |-> NoExc,
                 save_exc |-> save(db, qb, fs, doc).exc,
                 ret |-> save(db, qb, fs, doc).ret]
    /\ loaded' = EmptyBank(db.img_dir)
    /\ UNCHANGED <<db, bankVars, questionVars, reshapeVars>>

DbLoad ==
    /\ loaded' = load_of(db, fs, doc).qb
    /\ dbres' = [dbres EXCEPT !.op = "load", !.exc = load_of(db, fs, doc).exc,
                              !.cause = load_of(db, fs, doc).cause]
    /\ UNCHANGED <<db, fs, doc, bankVars, questionVars, reshapeVars>>

\* the bank is filled before the first save
DbAddChapter ==
    /\ dbres.save_exc = "not called"
    /\ \E num \in 1..MaxChapter : AddChapter(num, <<"a">>)

DbAddQuestion ==
    /\ dbres.save_exc = "not called"
    /\ \E q \in DbQuestions, num \in 1..MaxChapter : AddQuestion(q, num)

InitDB ==
    /\ impl = "entities"
    /\ BankIdle
    /\ QuestionIdle
    /\ db \in [cls : DbClasses, file_path : {DbFile, DbFileNoDir},
                img_dir : {DirD, DirE, DirMissing}]
    /\ doc \in Documents
    /\ doc.kind # "absent" => db.file_path = DbFile
    /\ fs = InitialFiles \cup (IF doc.kind = "absent" THEN {} ELSE {db.file_path})
    /\ loaded = EmptyBank(db.img_dir)
    /\ dbres = DbStart
    /\ ReshapeIdle

NextDB ==
    \/ DbAddChapter
    \/ DbAddQuestion
    \/ DbSave
    \/ DbLoad

SpecDB == InitDB /\ [][NextDB]_vars

\* validate_chapter_consistency: the state a bank is meant to be in
validate_chapter_consistency(b) ==
    /\ DOMAIN b.chap_num_to_ids = DOMAIN b.chapters
    /\ \A qid \in b.qids : Cardinality(ChaptersOf(b, qid)) = 1

SameQuestion(q1, q2) ==
    /\ q1.question = q2.question
    /\ q1.answers = q2.answers
    /\ q1.correct_answer = q2.correct_answer
    /\ q1.tags = q2.tags
    /\ q1.keywords = q2.keywords

SameBank(b1, b2) ==
    /\ list_chapters(b1) = list_chapters(b2)
    /\ question_count_total(b1) = question_count_total(b2)
    /\ \A c \in DOMAIN b1.chapters :
           get_qids_by_chapter(b1, c) = get_qids_by_chapter(b2, c)
    /\ \A qid \in b1.qids : SameQuestion(get_question(b1, qid), get_question(b2, qid))

\* C3: for a non-empty bank with every qid in exactly one chapter, a save
\* that returned True followed by load on the same database succeeds and
\* yields a bank with the same chapters, count, membership and question
\* fields.
C3_SaveLoadRoundTrip ==
    ( /\ dbres.op = "load" /\ dbres.save_exc = NoExc
      /\ qb.qids # {} /\ validate_chapter_consistency(qb) )
        => (dbres.exc = NoExc /\ SameBank(qb, loaded))

\* ------------------------------------------------------------------------
\* ImgReshaper, src/src/data_cleaning/img_reshaper.py and
\* src/src/data_formatting/img_reshaper.py
\* An image is its size and, once padded, the canvas it was pasted on and
\* where; the pixels themselves are left out.  Methods of the two classes
\* carry the prefix Cleaning or Formatting before their own name.
\* ------------------------------------------------------------------------
\* sides of target sizes are 1..MaxSide, sides of input images 1..MaxSide + 1
MaxSide == 3

TargetSizes == (1..MaxSide) \X (1..MaxSide)
ImageSizes == (1..(MaxSide + 1)) \X (1..(MaxSide + 1))

BUFFER_COLOR == <<127, 127, 127>>
WHITE == <<255, 255, 255>>

\* an image as Image.open gives it
SourceImage(size) ==
    [kind |-> "Image", size |-> size, canvas |-> <<>>, pasted |-> <<>>]

\* Image.new('RGB', size, color)
Image_new(size, color) ==
    [kind |-> "Image", size |-> size, canvas |-> color, pasted |-> <<>>]

\* what Image.open(f).load() returns: the pixel access object, which has no
\* size attribute
PixelAccess == [kind |-> "PixelAccess"]

\* background.paste(img, (x, y)): the background keeps its size
paste(background, img, x, y) ==
    [background EXCEPT !.pasted = img.size \o <<x, y>>]

Abs(n) == IF n < 0 THEN 0 - n ELSE n
Max(a, b) == IF a >= b THEN a ELSE b

\* round_aspect of Image.thumbnail: of the floor f and the ceiling c of the
\* scaled side, the one whose key is smaller, at least 1.  kf and kc are the
\* keys in exact arithmetic; when they are equal the rounding of the double
\* divisions decides which of the two min() returns, so both are outcomes.
round_aspect(f, c, kf, kc) ==
    LET picks == IF kf < kc THEN {f} ELSE IF kc < kf THEN {c} ELSE {f, c}
    IN {Max(n, 1) : n \in picks}

\* Image.thumbnail(size, LANCZOS) on an image of size <<w, h>>: the sizes it
\* may resize to, preserving the aspect ratio w / h
thumbnail(w, h, size) ==
    LET x == size[1]
        y == size[2]
    IN IF x >= w /\ y >= h THEN {<<w, h>>}
       ELSE IF x * h >= y * w
            THEN LET f == (y * w) \div h
                     c == IF (y * w) % h = 0 THEN f ELSE f + 1
                 IN {<<n, y>> : n \in round_aspect(f, c, Abs(w * y - f * h),
                                                   Abs(w * y - c * h))}
            ELSE LET f == (x * h) \div w
                     c == IF (x * h) % w = 0 THEN f ELSE f + 1
                 IN {<<x, n>> : n \in
                        IF f = 0 THEN {1}
                        ELSE round_aspect(f, c, Abs(w * f - x * h) * c,
                                                Abs(w * c - x * h) * f)}

\* directories and names handed to reshape
InDir == <<"in">>
OutDir == <<"out">>
ImgNames == {"a", "b"}

\* os.path.join(directory, f"{name}.{extension}")
ImgPath(directory, name, extension) == directory \o <<"/", name, ".", extension>>

\* image.save(path): the files afterwards
SaveFile(files, path, img) ==
    [p \in DOMAIN files \cup {path} |-> IF p = path THEN img ELSE files[p]]

\* ---- data_cleaning.img_reshaper.ImgReshaper ----
Cleaning__init__(self, target_size) ==
    [obj |-> [self EXCEPT !._size = target_size, !.attrs = @ \cup {"_size"}],
     exc |-> NoExc]

Cleaning__is_larger(self, img) ==
    (img.size[1] > self._size[1]) \/ (img.size[2] > self._size[2])

\* the images thumbnail may leave in the copy
Cleaning__downscale_img(self, img) ==
    {[img EXCEPT !.size = s] : s \in thumbnail(img.size[1], img.size[2], self._size)}

Cleaning__fill_img_NoPadding(self, img) ==
    img

Cleaning__fill_img(self, img) ==
    IF img.size = self._size THEN img
    ELSE LET background == Image_new(self._size, WHITE)
             paste_x == (self._size[1] - img.size[1]) \div 2
             paste_y == (self._size[2] - img.size[2]) \div 2
         IN paste(background, img, paste_x, paste_y)

\* _save_img: always a .jpg in new_dir
Cleaning__save_img(files, img, new_dir, img_name) ==
    SaveFile(files, ImgPath(new_dir, img_name, "jpg"), img)

\* reshape(img_name, cur_dir, new_dir): the outcomes, one per image the
\* downscale may produce
Cleaning_reshape(self, files, img_name, cur_dir, new_dir) ==
    LET img_path == ImgPath(cur_dir, img_name, "webp")
    IN IF img_path \notin DOMAIN files
       THEN {[disk |-> files, exc |-> "FileNotFoundError", path |-> <<>>,
              input |-> NoImage]}
       ELSE LET img == files[img_path]
                scaled == IF Cleaning__is_larger(self, img)
                          THEN Cleaning__downscale_img(self, img)
                          ELSE {img}
            IN {[disk |-> Cleaning__save_img(files, Cleaning__fill_img(self, s),
                                             new_dir, img_name),
                 exc |-> NoExc,
                 path |-> ImgPath(new_dir, img_name, "jpg"),
                 input |-> img] : s \in scaled}

\* ---- data_formatting.img_reshaper.ImgReshaper ----
\* __init__ reads self._size for the buffer image before assigning it
Formatting__init__(self, target_size) ==
    IF "_size" \notin self.attrs
    THEN [obj |-> self, exc |-> "AttributeError"]
    ELSE LET withBuffer ==
                 [self EXCEPT !._buffer_image = Image_new(self._size, BUFFER_COLOR),
                              !.attrs = @ \cup {"_buffer_image"}]
         IN [obj |-> [withBuffer EXCEPT !._size = target_size],
             exc |-> NoExc]

\* the object the methods below are written for and the tests hand them:
\* _size the target size and _buffer_image a canvas of that size
FormattingSelf(target_size) ==
    [variant |-> "data_formatting", attrs |-> {"_size", "_buffer_image"},
     _size |-> target_size,
     _buffer_image |-> Image_new(target_size, BUFFER_COLOR)]

Formatting__fetch_img(files, img_name, cur_dir, input_extension) ==
    IF ImgPath(cur_dir, img_name, input_extension) \in DOMAIN files
    THEN [img |-> PixelAccess, exc |-> NoExc]
    ELSE [img |-> NoImage, exc |-> "FileNotFoundError"]

Formatting__is_larger(self, img) ==
    (img.size[1] > self._size[1]) \/ (img.size[2] > self._size[2])

\* _is_smaller with "or" in place of "and"
Formatting__is_smaller_AnySide(self, img) ==
    (img.size[1] < self._size[1]) \/ (img.size[2] < self._size[2])

Formatting__is_smaller(self, img) ==
    (img.size[1] < self._size[1]) /\ (img.size[2] < self._size[2])

\* int(side * scale_factor) where the product is num / den in exact
\* arithmetic: the quotient truncated; when the division is exact the double
\* product may fall just below the integer (11 * (15 / 11) is 14.99..), and
\* int() then gives one less
int_scaled(num, den) ==
    {num \div den} \cup (IF num % den = 0 THEN {(num \div den) - 1} ELSE {})

\* _upscale_img: scale_factor is the larger of the two ratios; the images
\* resize may return
Formatting__upscale_img(self, img) ==
    LET w == img.size[1]
        h == img.size[2]
        tw == self._size[1]
        th == self._size[2]
    IN IF tw * h >= th * w
       THEN {[img EXCEPT !.size = <<nw, nh>>] :
                 nw \in int_scaled(w * tw, w), nh \in int_scaled(h * tw, w)}
       ELSE {[img EXCEPT !.size = <<nw, nh>>] :
                 nw \in int_scaled(w * th, h), nh \in int_scaled(h * th, h)}

Formatting__downscale_img_NoThumbnail(self, img) ==
    {img}

Formatting__downscale_img(self, img) ==
    {[img EXCEPT !.size = s] : s \in thumbnail(img.size[1], img.size[2], self._size)}

\* _rescale_image: the outcomes, each with the branch taken; reading
\* img.size of something that is not an Image raises AttributeError
Formatting__rescale_image(self, img) ==
    IF img.kind # "Image"
    THEN {[img |-> img, exc |-> "AttributeError", branch |-> "none"]}
    ELSE IF Formatting__is_larger(self, img)
         THEN {[img |-> d, exc |-> NoExc, branch |-> "_downscale_img"] :
                  d \in Formatting__downscale_img(self, img)}
    ELSE IF Formatting__is_smaller(self, img)
         THEN {[img |-> u, exc |-> NoExc, branch |-> "_upscale_img"] :
                  u \in Formatting__upscale_img(self, img)}
    ELSE {[img |-> img, exc |-> NoExc, branch |-> "none"]}

Formatting__fill_img(self, img) ==
    IF img.kind # "Image" \/ self._buffer_image.kind # "Image"
    THEN [img |-> img, exc |-> "AttributeError"]
    ELSE LET paste_x == (self._size[1] - img.size[1]) \div 2
             paste_y == (self._size[2] - img.size[2]) \div 2
             background == self._buffer_image
         IN [img |-> paste(background, img, paste_x, paste_y), exc |-> NoExc]

Formatting__save_img(files, image, image_name, new_directory, output_extension) ==
    SaveFile(files, ImgPath(new_directory, image_name, output_extension), image)

\* reshape(img_name, input_directory, output_directory, input_extension,
\* output_extension): fetch, rescale, fill, save, stopping at the first step
\* that raises
Formatting_reshape(self, files, img_name, input_directory, output_directory, input_extension, output_extension) ==
    LET fetched == Formatting__fetch_img(files, img_name, input_directory,
                                         input_extension)
        failed(e) == [disk |-> files, exc |-> e, path |-> <<>>, input |-> NoImage]
    IN IF fetched.exc # NoExc THEN {failed(fetched.exc)}
       ELSE {IF r.exc # NoExc THEN failed(r.exc)
             ELSE IF Formatting__fill_img(self, r.img).exc # NoExc
                  THEN failed(Formatting__fill_img(self, r.img).exc)
             ELSE [disk |-> Formatting__save_img(files,
                                Formatting__fill_img(self, r.img).img,
                                img_name, output_directory, output_extension),
                   exc |-> NoExc,
                   path |-> ImgPath(output_directory, img_name, output_extension),
                   input |-> NoImage]
             : r \in Formatting__rescale_image(self, fetched.img)}

reshape(self, files, img_name) ==
    IF self.variant = "data_cleaning"
    THEN Cleaning_reshape(self, files, img_name, InDir, OutDir)
    ELSE Formatting_reshape(self, files, img_name, InDir, OutDir, "webp", "jpg")

\* ---- a caller that builds a reshaper and reshapes the image in InDir ----
\* ImgReshaper(target_size) of either module; the name is bound only if the
\* constructor returns
CallInit ==
    \E variant \in {"data_cleaning", "data_formatting"}, target_size \in TargetSizes :
        LET r == IF variant = "data_cleaning"
                 THEN Cleaning__init__(NewObject(variant), target_size)
                 ELSE Formatting__init__(NewObject(variant), target_size)
        IN /\ reshaper' = IF r.exc = NoExc THEN r.obj ELSE reshaper
           /\ rres' = [op |-> "__init__", exc |-> r.exc, path |-> <<>>,
                       target |-> target_size, input |-> NoImage,
                       rescaled |-> NoImage, output |-> NoImage]
           /\ UNCHANGED <<disk, bankVars, questionVars, dbVars>>

CallReshape ==
    /\ reshaper.variant # "none"
    /\ \E img_name \in ImgNames : \E o \in reshape(reshaper, disk, img_name) :
           /\ disk' = o.disk
           /\ rres' = [op |-> "reshape", exc |-> o.exc, path |-> o.path,
                       target |-> reshaper._size, input |-> o.input,
                       rescaled |-> NoImage,
                       output |-> IF o.exc = NoExc THEN o.disk[o.path] ELSE NoImage]
    /\ UNCHANGED <<reshaper, bankVars, questionVars, dbVars>>

\* the steps of data_formatting's reshape between fetch and save, _rescale_image
\* then _fill_img, applied to the opened image
CallRescaleAndFill ==
    \E target_size \in TargetSizes :
        LET self == FormattingSelf(target_size)
            img == disk[ImgPath(InDir, "a", "webp")]
        IN \E r \in Formatting__rescale_image(self, img) :
               /\ rres' = [op |-> "_rescale_image, _fill_img",
                           exc |-> IF r.exc # NoExc THEN r.exc
                                   ELSE Formatting__fill_img(self, r.img).exc,
                           path |-> <<>>, target |-> target_size, input |-> img,
                           branch |-> r.branch,
                           rescaled |-> IF r.exc # NoExc THEN NoImage ELSE r.img,
                           output |-> IF r.exc # NoExc THEN NoImage
                                      ELSE Formatting__fill_img(self, r.img).img]
               /\ UNCHANGED <<reshaper, disk, bankVars, questionVars, dbVars>>

InitReshape ==
    /\ impl = "entities"
    /\ BankIdle
    /\ QuestionIdle
    /\ DbIdle
    /\ reshaper = NoReshaper
    /\ \E size \in ImageSizes :
           disk = [p \in {ImgPath(InDir, "a", "webp")} |-> SourceImage(size)]
    /\ rres = ReshapeStart

NextReshape ==
    \/ CallInit
    \/ CallReshape
    \/ CallRescaleAndFill

SpecReshape == InitReshape /\ [][NextReshape]_vars

RoundingError == 1

\* the rescale step has upscaled: the input was below the target on both axes
Upscaled ==
    /\ rres.op = "_rescale_image, _fill_img"
    /\ rres.exc = NoExc
    /\ rres.input.size[1] < rres.target[1]
    /\ rres.input.size[2] < rres.target[2]

\* C11: an image strictly smaller than the target on both axes is upscaled to
\* an image that meets the target on at least one axis and exceeds it on
\* neither axis by more than rounding error.
C11_UpscaleMeetsOneAxisWithinOther ==
    Upscaled =>
        /\ \E i \in 1..2 :
               Abs(rres.rescaled.size[i] - rres.target[i]) <= RoundingError
        /\ \A i \in 1..2 :
               rres.rescaled.size[i] <= rres.target[i] + RoundingError

\* the rescale step has downscaled: the input exceeded the target on an axis
Downscaled ==
    /\ rres.op = "_rescale_image, _fill_img"
    /\ rres.exc = NoExc
    /\ (rres.input.size[1] > rres.target[1] \/ rres.input.size[2] > rres.target[2])

\* C12: whenever the rescale step downscales or upscales, the width or the
\* height of the result is within one pixel of the corresponding target side;
\* after a downscale both sides are in addition at most the target sides.
C12_RescaledMeetsTargetOnOneAxis ==
    /\ (Downscaled \/ Upscaled) =>
           \E i \in 1..2 :
               Abs(rres.rescaled.size[i] - rres.target[i]) <= RoundingError
    /\ Downscaled =>
           \A i \in 1..2 : rres.rescaled.size[i] <= rres.target[i]

\* a downscale has shrunk an image that was too wide only: the height now
\* lies below the target and the width meets it
C12_Witness ==
    /\ Downscaled
    /\ rres.input.size[2] <= rres.target[2]
    /\ rres.rescaled.size[1] = rres.target[1]
    /\ rres.rescaled.size[2] < rres.target[2]

\* C13: constructing an ImgReshaper with a valid target size completes
\* without raising and leaves _size equal to the target size and, for the
\* class that keeps one, an RGB buffer image of exactly that size filled with
\* the padding colour (127, 127, 127).
C13_ConstructorCompletes ==
    rres.op = "__init__" =>
        /\ rres.exc = NoExc
        /\ reshaper._size = rres.target
        /\ reshaper.variant = "data_formatting" =>
               reshaper._buffer_image = Image_new(rres.target, BUFFER_COLOR)

\* C14: save returns True when it completes, and a save that fails on the
\* image copy or on the write of the JSON file raises the persistence error
\* (ConnectionError), never another exception.
C14_SaveFailureIsPersistenceError ==
    dbres.op = "save" =>
        /\ dbres.exc = NoExc => dbres.ret = <<"True">>
        /\ dbres.exc # NoExc => dbres.exc = "ConnectionError"

\* C15: after save has returned True, every question of the bank that has an
\* image has a file at {database image directory}/{qid}.{extension}, and that
\* path is the img_path the saved document records for it.
C15_SavedImagesExist ==
    (dbres.op = "save" /\ dbres.exc = NoExc) =>
        \A qid \in qb.qids :
            get_question(qb, qid).img_path # None =>
                /\ _make_img_path(db.img_dir, get_question(qb, qid)) \in fs
                /\ doc.data.questions[qid].img_path =
                       _make_img_path(db.img_dir, get_question(qb, qid))

\* the document holds a record whose img_path is not empty and names a file
\* that does not exist
MissingImage ==
    /\ doc.kind = "json"
    /\ "questions" \in DOMAIN doc.data
    /\ \E qid \in DOMAIN doc.data.questions :
           /\ doc.data.questions[qid].img_path # <<>>
           /\ doc.data.questions[qid].img_path \notin fs

\* C16: load of a document in which a record's img_path is not empty and
\* names a file that does not exist raises the image-not-found error (to the
\* caller it arrives inside load's wrapping error); the record is not loaded
\* silently with img_path None.
C16_MissingImageRaises ==
    (dbres.op = "load" /\ MissingImage) =>
        (dbres.exc # NoExc /\ dbres.cause = "FileNotFoundError")

\* ------------------------------------------------------------------------
\* C17: load of data_access.local_json_db raises FileNotFoundError exactly
\* when the database file does not exist; when the file exists, text that is
\* not JSON, a document with a key missing and a document with a value of
\* the wrong type all end in the one wrapping error, ConnectionError, which
\* carries the original exception (ValidationError when the bank cannot even
\* be constructed); no other exception leaves load
\* ------------------------------------------------------------------------
\* the content of the file cannot be parsed into a bank
Malformed ==
    \/ doc.kind = "invalid"
    \/ /\ doc.kind = "json"
       /\ \/ {"chapters", "chap_to_qids", "questions"} \ DOMAIN doc.data # {}
          \/ doc.data.chapters = NotADict

C17_LoadErrors ==
    (dbres.op = "load" /\ db.cls = "data_access") =>
        /\ dbres.exc = "FileNotFoundError" <=> db.file_path \notin fs
        /\ dbres.exc \in {NoExc, "FileNotFoundError", "ConnectionError"}
        /\ (db.file_path \in fs /\ Malformed) =>
               /\ dbres.exc = "ConnectionError"
               /\ dbres.cause \in {"JSONDecodeError", "KeyError", "AttributeError",
                                  "ValidationError"}
        /\ dbres.exc = "ConnectionError" <=> dbres.cause # NoExc

\* a load of text that is not JSON has ended in ConnectionError carrying the
\* decoder's error
C17_Witness ==
    /\ dbres.op = "load"
    /\ db.cls = "data_access"
    /\ db.file_path \in fs
    /\ doc.kind = "invalid"
    /\ dbres.exc = "ConnectionError"
    /\ dbres.cause = "JSONDecodeError"

\* ------------------------------------------------------------------------
\* C18: loading a file whose content is the literal {} returns, without
\* raising, an empty QuestionBank whose img_dir is the image directory of
\* the database, with no chapters and question_count() = 0
\* ------------------------------------------------------------------------
\* a load has just read a file that holds {}
LoadedEmptyDocument ==
    /\ dbres.op = "load"
    /\ db.file_path \in fs
    /\ doc.kind = "empty"

\* the value load returned is the empty bank of the database's directory
ReturnedEmptyBank ==
    /\ dbres.exc = NoExc
    /\ loaded.img_dir = db.img_dir
    /\ list_chapters(loaded) = <<>>
    /\ question_count_total(loaded) = 0

LoadedDocument ==
    /\ dbres.op = "load"
    /\ db.file_path \in fs
    /\ doc.kind = "json"
    /\ {"chapters", "chap_to_qids", "questions"} \subseteq DOMAIN doc.data
    /\ doc.data.chapters # NotADict

\* the numbers of the chapters whose chap_to_qids list holds qid
ListingChapters(qid) ==
    { StrToInt(doc.data.chap_to_qids[i][1]) :
        i \in { j \in DOMAIN doc.data.chap_to_qids :
                    qid \in ListToSet(doc.data.chap_to_qids[j][2]) } }

C19_LoadPlacesByChapToQids ==
    LoadedDocument =>
        \A qid \in DOMAIN doc.data.questions :
            IF ListingChapters(qid) = {}
            THEN dbres.exc # NoExc
            ELSE dbres.exc = NoExc =>
                    /\ qid \in loaded.qids
                    /\ \E c \in ListingChapters(qid) : ChaptersOf(loaded, qid) = {c}

\* ------------------------------------------------------------------------
\* C20: get_qids_by_chapter returns a copy: when the caller adds an element
\* to the returned set or removes one from it, the bank's membership sets
\* stay as they were, and so does what get_qids_by_chapter and question_count
\* return afterwards for every chapter
\* ------------------------------------------------------------------------
C20_ReturnedSetIsCopy ==
    [][(CallCallerQidsAdd \/ CallCallerQidsDiscard) =>
          /\ qb'.chap_num_to_ids = qb.chap_num_to_ids
          /\ question_count_total(qb') = question_count_total(qb)
          /\ \A n \in DOMAIN qb.chap_num_to_ids :
                /\ Elements(qb', [kind |-> "member", chapter |-> n])
                       = Elements(qb, [kind |-> "member", chapter |-> n])
                /\ question_count(qb', n) = question_count(qb, n)]_vars

\* ------------------------------------------------------------------------
\* C21: the containers the accessors of Question return (get_answers,
\* get_tags) are defensive copies: when the caller adds to, removes from or
\* appends to a container it was given, the answers set and the tags list of
\* the Question stay as they were, and so does what the accessors return
\* afterwards
\* ------------------------------------------------------------------------
C21_AccessorsReturnCopies ==
    [][(q_obj.alive /\ (CallCallerSetAdd \/ CallCallerSetDiscard \/ CallCallerListAppend)) =>
          /\ heap'[q_obj.answers].val = heap[q_obj.answers].val
          /\ heap'[q_obj.tags].val = heap[q_obj.tags].val
          /\ heap'[get_answers(q_obj', heap').ref].val = heap[get_answers(q_obj, heap).ref].val
          /\ get_tags(q_obj', heap').heap[get_tags(q_obj', heap').ref].val
                 = get_tags(q_obj, heap).heap[get_tags(q_obj, heap).ref].val]_vars

\* ------------------------------------------------------------------------
\* C22: add_tag is idempotent: a tag that is already in the list is not
\* added again, so the tags list of a Question holds each tag at most once
\* ------------------------------------------------------------------------
\* no element occurs twice in the list
NoDuplicates(l) == \A i, j \in DOMAIN l : l[i] = l[j] => i = j

C22_AddTagIdempotent ==
    q_obj.alive => NoDuplicates(heap[q_obj.tags].val)

\* ------------------------------------------------------------------------
\* C23: Question(...) checks, in this order, the qid, the question text, the
\* number of answers (at least 2), the empty-string answer, the membership
\* of the correct answer and the type of img_path; it raises one
\* IncorrectFormatError, that of the first check that fails, and returns an
\* object only when none fails
\* ------------------------------------------------------------------------
\* the checks in the order of the claim: TRUE where the check fails
FailedChecks(a) ==
    << ~IsStr(a.qid) \/ a.qid = "",
       ~IsStr(a.question) \/ a.question = "",
       Cardinality(a.answers) < 2,
       "" \in a.answers,
       ~IsStr(a.correct_answer) \/ a.correct_answer \notin a.answers,
       a.img_path # None /\ ~IsStrPath(a.img_path) >>

\* the message each check raises
CheckMessages ==
    << "Question ID must be a non-empty string.",
       "Question text must be a non-empty string.",
       "There must be at least two answers.",
       "Answers cannot contain empty strings.",
       "Correct answer must be one of the provided answers.",
       "Image path must be a string or None." >>

RECURSIVE SumOfCounts(_, _)
SumOfCounts(b, S) ==
    IF S = {} THEN 0
    ELSE LET c == CHOOSE x \in S : TRUE
         IN question_count(b, c) + SumOfCounts(b, S \ {c})

C24_CountsAddUp ==
    (DOMAIN qb.chapters = DOMAIN qb.chap_num_to_ids) =>
        /\ question_count_total(qb) = SumOfCounts(qb, DOMAIN qb.chapters)
        /\ \A c \in DOMAIN qb.chapters :
              question_count(qb, c) = Cardinality(get_qids_by_chapter(qb, c))

\* ------------------------------------------------------------------------
\* QBEmbedder (src/embedding/qb_embedder.py) and Siglip2QBEmbedder
\* (src/src/embedder/siglip2_qb_embedder.py) on the plain QuestionBank.  The
\* model behind _encode_question is opaque: a call is recorded by the qid of
\* the question passed, a stored embedding by the slot written.
\* ------------------------------------------------------------------------
Embedders == {"QBEmbedder", "Siglip2QBEmbedder"}

\* the qids visited by the two nested loops: chapters in get_all_chapter_num()
\* order, the members of each chapter one after the other
RECURSIVE VisitedQids(_, _)
VisitedQids(b, chapters) ==
    IF chapters = <<>> THEN <<>>
    ELSE SortedQids(get_qids_by_chapter(b, Head(chapters)))
             \o VisitedQids(b, Tail(chapters))

\* the loop body of QBEmbedder.encode_qb from position i of the visit, idx
\* being i - 1: the array made at the first iteration has question_count()
\* rows, and a store beyond the last row raises IndexError
RECURSIVE QBEmbedder_loop(_, _, _, _)
QBEmbedder_loop(b, visit, i, r) ==
    IF i > Len(visit) THEN r
    ELSE IF visit[i] \notin b.qids
    THEN [r EXCEPT !.exc = "LookupError"]
    ELSE LET called == [r EXCEPT !.calls = Append(@, visit[i]),
                                 !.size = question_count_total(b)]
         IN IF i - 1 >= question_count_total(b)
            THEN [called EXCEPT !.exc = "IndexError"]
            ELSE QBEmbedder_loop(b, visit, i + 1,
                                 [called EXCEPT !.writes = Append(@, i - 1)])

\* QBEmbedder.encode_qb: the calls made, the rows written, the number of rows
\* of the array returned (0 for the None of a visit without questions)
QBEmbedder_encode_qb(b) ==
    QBEmbedder_loop(b, VisitedQids(b, SortedInts(DOMAIN b.chapters)), 1,
                    [calls |-> <<>>, writes |-> <<>>, size |-> 0, exc |-> NoExc])

\* the loop body of Siglip2QBEmbedder.encode_qb: embeddings[qid] = embedding
RECURSIVE Siglip2_loop(_, _, _, _)
Siglip2_loop(b, visit, i, r) ==
    IF i > Len(visit) THEN r
    ELSE IF visit[i] \notin b.qids
    THEN [r EXCEPT !.exc = "LookupError"]
    ELSE Siglip2_loop(b, visit, i + 1,
                      [r EXCEPT !.calls = Append(@, visit[i]),
                                !.writes = Append(@, visit[i]),
                                !.size = Cardinality(ListToSet(Append(r.writes, visit[i])))])

\* Siglip2QBEmbedder.encode_qb: the calls made, the keys written, the number
\* of entries of the dictionary returned
Siglip2_encode_qb(b) ==
    Siglip2_loop(b, VisitedQids(b, SortedInts(DOMAIN b.chapters)), 1,
                 [calls |-> <<>>, writes |-> <<>>, size |-> 0, exc |-> NoExc])

encode_qb(embedder, b) ==
    IF embedder = "QBEmbedder" THEN QBEmbedder_encode_qb(b) ELSE Siglip2_encode_qb(b)

\* encode_qb on the bank; both classes ask for a bank that is not empty
EncodeQb(embedder) ==
    /\ impl = "qb"
    /\ qb.qids # {}
    /\ last' = [op |-> "encode_qb", exc |-> encode_qb(embedder, qb).exc,
                known |-> FALSE, embedder |-> embedder,
                result |-> encode_qb(embedder, qb)]
    /\ UNCHANGED <<impl, qb, held, questionVars, dbVars, reshapeVars>>

CallEncodeQb == \E embedder \in Embedders : EncodeQb(embedder)

InitEmbed ==
    /\ impl = "qb"
    /\ BankIdle
    /\ QuestionIdle
    /\ DbIdle
    /\ ReshapeIdle

NextEmbed ==
    \/ CallAddChapter
    \/ CallAddQuestion
    \/ CallEncodeQb

SpecEmbed == InitEmbed /\ [][NextEmbed]_vars

\* ------------------------------------------------------------------------
\* C25: encode_qb calls the encoder exactly once for each question of the
\* bank and stores every embedding in a slot of its own, in a result that
\* holds exactly question_count() embeddings: no store is out of range and
\* no slot is written twice
\* ------------------------------------------------------------------------
\* how many times x occurs in the sequence
Occurrences(seq, x) == Cardinality({ i \in DOMAIN seq : seq[i] = x })

C25_EncodeOncePerQuestion ==
    last.op = "encode_qb" =>
        /\ last.exc = NoExc
        /\ \A qid \in qb.qids : Occurrences(last.result.calls, qid) = 1
        /\ Len(last.result.calls) = question_count_total(qb)
        /\ NoDuplicates(last.result.writes)
        /\ Len(last.result.writes) = Len(last.result.calls)
        /\ last.result.size = question_count_total(qb)

\* ------------------------------------------------------------------------
\* C26: _rescale_image takes exactly one of three branches: it downscales
\* exactly when the width or the height is above the target; otherwise it
\* upscales exactly when the width and the height are both below the
\* target; otherwise it returns the image with its size unchanged, and so
\* an image of exactly the target size is never rescaled
\* ------------------------------------------------------------------------
\* a rescale step has run on an image
Rescaled ==
    /\ rres.op = "_rescale_image, _fill_img"
    /\ rres.input.kind = "Image"

C26_RescaleBranches ==
    Rescaled =>
        LET w == rres.input.size[1]
            h == rres.input.size[2]
            tw == rres.target[1]
            th == rres.target[2]
        IN /\ rres.branch \in {"_downscale_img", "_upscale_img", "none"}
           /\ rres.branch = "_downscale_img" <=> (w > tw \/ h > th)
           /\ rres.branch = "_upscale_img" <=> (~(w > tw \/ h > th) /\ w < tw /\ h < th)
           /\ rres.branch = "none" => rres.rescaled = rres.input
           /\ (w = tw /\ h = th) => rres.branch = "none"

\* an image that matches the target on one axis and is below it on the
\* other has been left as it was
C26_Witness ==
    /\ Rescaled
    /\ rres.input.size[1] = rres.target[1]
    /\ rres.input.size[2] < rres.target[2]
    /\ rres.branch = "none"
    /\ rres.rescaled = rres.input

\* ------------------------------------------------------------------------
\* DataFormatter, src/src/data_formatting/data_formatter.py, on the entities
\* QuestionBank.  _resize_images is handed its reshaper; what reshape does
\* for one question is a choice of the reshaper: it saves the image under
\* os.path.join(output_directory, f"{img_name}.{output_extension}"), making
\* the directory, and returns that path, or it raises.
\* ------------------------------------------------------------------------
output_image_extension == "png"

\* the directories format_data is asked to fill: an existing one, one not
\* made yet, and the existing one written with a leading blank
NewImgDirs == {DirE, DirMissing, <<" ">> \o DirE}

\* Question.has_img
has_img(q) == q.img_path # None

\* QuestionBank.set_img_dir: the assignment is validated (validate_assignment):
\* validate_img_dir trims the path and wants an existing directory, then
\* validate_chapter_consistency runs on the whole bank; when only the latter
\* raises, the new value may or may not have been stored already
set_img_dir(b, img_dir, files) ==
    LET trimmed == Strip(img_dir)
        assigned == [b EXCEPT !.img_dir = trimmed]
    IN IF trimmed = <<>> \/ trimmed \notin files
       THEN {[qb |-> b, exc |-> "ValidationError"]}
       ELSE IF ~validate_chapter_consistency(assigned)
       THEN {[qb |-> b, exc |-> "ValidationError"],
             [qb |-> assigned, exc |-> "ValidationError"]}
       ELSE {[qb |-> assigned, exc |-> NoExc]}

\* the loop of _resize_images that goes on to the next question without
\* question.set_img_path(new_path)
RECURSIVE _resize_images_loop_NoSetImgPath(_, _, _, _, _)
_resize_images_loop_NoSetImgPath(b, new_img_dir, raising, todo, r) ==
    IF todo = <<>> THEN r
    ELSE LET qid == Head(todo)
             question == get_question(r.qb, qid)
             new_path == ImgPath(new_img_dir, qid, output_image_extension)
         IN IF ~has_img(question)
            THEN _resize_images_loop_NoSetImgPath(b, new_img_dir, raising, Tail(todo), r)
            ELSE IF qid \in raising
            THEN [r EXCEPT !.calls = Append(@, qid), !.exc = "Exception",
                           !.failed = qid]
            ELSE _resize_images_loop_NoSetImgPath(b, new_img_dir, raising, Tail(todo),
                     [r EXCEPT !.calls = Append(@, qid),
                               !.returned = Put(@, qid, new_path),
                               !.fs = @ \cup {new_img_dir, new_path}])

\* the loop of _resize_images that handles the remaining questions before it
\* lets what reshape raised escape
RECURSIVE _resize_images_loop_KeepGoing(_, _, _, _, _)
_resize_images_loop_KeepGoing(b, new_img_dir, raising, todo, r) ==
    IF todo = <<>> THEN r
    ELSE LET qid == Head(todo)
             question == get_question(r.qb, qid)
             new_path == ImgPath(new_img_dir, qid, output_image_extension)
         IN IF ~has_img(question)
            THEN _resize_images_loop_KeepGoing(b, new_img_dir, raising, Tail(todo), r)
            ELSE IF qid \in raising
            THEN _resize_images_loop_KeepGoing(b, new_img_dir, raising, Tail(todo),
                     [r EXCEPT !.calls = Append(@, qid), !.exc = "Exception",
                               !.failed = IF @ = "" THEN qid ELSE @])
            ELSE _resize_images_loop_KeepGoing(b, new_img_dir, raising, Tail(todo),
                     [r EXCEPT !.calls = Append(@, qid),
                               !.returned = Put(@, qid, new_path),
                               !.fs = @ \cup {new_img_dir, new_path},
                               !.qb.id_to_q[qid].img_path = new_path])

\* the loop of _resize_images over the qids not yet handled; raising is the
\* set of questions for which reshape raises
RECURSIVE _resize_images_loop(_, _, _, _, _)
_resize_images_loop(b, new_img_dir, raising, todo, r) ==
    IF todo = <<>> THEN r
    ELSE LET qid == Head(todo)
             question == get_question(r.qb, qid)
             new_path == ImgPath(new_img_dir, qid, output_image_extension)
         IN IF ~has_img(question)
            THEN _resize_images_loop(b, new_img_dir, raising, Tail(todo), r)
            ELSE IF qid \in raising
            THEN [r EXCEPT !.calls = Append(@, qid), !.exc = "Exception",
                           !.failed = qid]
            ELSE _resize_images_loop(b, new_img_dir, raising, Tail(todo),
                     [r EXCEPT !.calls = Append(@, qid),
                               !.returned = Put(@, qid, new_path),
                               !.fs = @ \cup {new_img_dir, new_path},
                               !.qb.id_to_q[qid].img_path = new_path])

\* _resize_images: the loop over get_qid_list(), then set_img_dir; the
\* outcomes
_resize_images(b, new_img_dir, raising, files) ==
    LET r == _resize_images_loop(b, new_img_dir, raising, get_qid_list(b),
                                 [qb |-> b, fs |-> files, calls |-> <<>>,
                                  returned |-> EmptyMap, exc |-> NoExc,
                                  failed |-> ""])
    IN IF r.exc # NoExc THEN {r}
       ELSE {[r EXCEPT !.qb = d.qb, !.exc = d.exc] :
                d \in set_img_dir(r.qb, new_img_dir, r.fs)}

\* format_data: ImgReshaper(target_size=...) first, then _resize_images
format_data(b, new_img_dir, raising, files) ==
    LET made == Formatting__init__(NewObject("data_formatting"), <<MaxSide, MaxSide>>)
    IN IF made.exc # NoExc
       THEN {[qb |-> b, fs |-> files, calls |-> <<>>, returned |-> EmptyMap,
              exc |-> made.exc, failed |-> ""]}
       ELSE _resize_images(b, new_img_dir, raising, files)

\* the record of a call on the formatter
Formatted(op, new_img_dir, r) ==
    [op |-> op, exc |-> r.exc, new_img_dir |-> new_img_dir, before |-> qb,
     calls |-> r.calls, returned |-> r.returned, failed |-> r.failed]

\* no call made on the formatter yet
NotFormatted == rres.op = "init"

\* the bank is filled before the formatter is called, and it is called once
FormatAddChapter == NotFormatted /\ DbAddChapter

FormatAddQuestion == NotFormatted /\ DbAddQuestion

FormatData ==
    /\ NotFormatted
    /\ \E new_img_dir \in NewImgDirs, raising \in SUBSET qb.qids :
         \E r \in format_data(qb, new_img_dir, raising, fs) :
             /\ qb' = r.qb
             /\ fs' = r.fs
             /\ rres' = Formatted("format_data", new_img_dir, r)
             /\ UNCHANGED <<impl, last, held, questionVars, db, doc, loaded, dbres,
                            reshaper, disk>>

ResizeImages ==
    /\ NotFormatted
    /\ \E new_img_dir \in NewImgDirs, raising \in SUBSET qb.qids :
         \E r \in _resize_images(qb, new_img_dir, raising, fs) :
             /\ qb' = r.qb
             /\ fs' = r.fs
             /\ rres' = Formatted("_resize_images", new_img_dir, r)
             /\ UNCHANGED <<impl, last, held, questionVars, db, doc, loaded, dbres,
                            reshaper, disk>>

InitFormat ==
    /\ impl = "entities"
    /\ BankIdle
    /\ QuestionIdle
    /\ DbIdle
    /\ ReshapeIdle

NextFormat ==
    \/ FormatAddChapter
    \/ FormatAddQuestion
    \/ FormatData
    \/ ResizeImages

SpecFormat == InitFormat /\ [][NextFormat]_vars

\* ------------------------------------------------------------------------
\* C27: a format_data(bank, new_img_dir) that returns has called reshape
\* exactly once for each question with an image and never for a question
\* without one; each image question's img_path is the path its reshape call
\* returned, the questions without an image are as they were, the bank's
\* img_dir is new_img_dir, and get_qid_list() and list_chapters() are what
\* they were before the call
\* ------------------------------------------------------------------------
\* the qids of the questions of b that have an image
ImageQids(b) == { qid \in b.qids : has_img(get_question(b, qid)) }

\* format_data, or the _resize_images it consists of, has returned
FormatSucceeded ==
    /\ rres.op \in {"format_data", "_resize_images"}
    /\ rres.exc = NoExc

\* what the call did to the questions and left alone in the bank
FormatEffects ==
    /\ \A i \in DOMAIN rres.calls : rres.calls[i] \in rres.before.qids
    /\ \A qid \in rres.before.qids :
          IF qid \in ImageQids(rres.before)
          THEN /\ Occurrences(rres.calls, qid) = 1
               /\ get_question(qb, qid).img_path = rres.returned[qid]
          ELSE /\ Occurrences(rres.calls, qid) = 0
               /\ get_question(qb, qid) = get_question(rres.before, qid)
    /\ get_qid_list(qb) = get_qid_list(rres.before)
    /\ list_chapters(qb) = list_chapters(rres.before)

C27_FormatDataEffects ==
    FormatSucceeded => (FormatEffects /\ qb.img_dir = rres.new_img_dir)

\* C27 as it holds: the same, the bank's img_dir being new_img_dir with the
\* blanks around it removed, which is what set_img_dir stores
C27_FormatDataEffectsTrimmedDir ==
    FormatSucceeded => (FormatEffects /\ qb.img_dir = Strip(rres.new_img_dir))

\* a bank with a question that has an image and one that has none has been
\* formatted
C27_Witness ==
    /\ FormatSucceeded
    /\ ImageQids(rres.before) # {}
    /\ rres.before.qids \ ImageQids(rres.before) # {}
    /\ Len(rres.calls) = 1
    /\ qb.img_dir = rres.new_img_dir

\* C28: add_chapter with a chapter number that is already registered leaves
\* the stored description and the chapter's membership set as they were,
\* whether the call returns (entities) or raises (qb).
C28_AddExistingChapterKeeps ==
    [][\A num \in ChapterNums, desc \in Descriptions :
          (AddChapter(num, desc) /\ num \in DOMAIN qb.chapters)
              => /\ num \in DOMAIN qb'.chapters
                 /\ qb'.chapters[num] = qb.chapters[num]
                 /\ num \in DOMAIN qb'.chap_num_to_ids
                 /\ qb'.chap_num_to_ids[num] = qb.chap_num_to_ids[num]]_vars

\* add_chapter was called with a registered number while every registered
\* chapter held a question
C28_Witness ==
    /\ last.op = "add_chapter" /\ last.known
    /\ DOMAIN qb.chapters # {}
    /\ \A c \in DOMAIN qb.chapters :
          c \in DOMAIN qb.chap_num_to_ids /\ qb.chap_num_to_ids[c] # {}

\* the questions of bank b whose image _copy_images copies: img_path set and
\* existing in files
Copyable(b, files) ==
    {qid \in b.qids : /\ get_question(b, qid).img_path # None
                      /\ get_question(b, qid).img_path # <<>>
                      /\ get_question(b, qid).img_path \in files}

\* C29: within save the JSON document is written only after every image
\* copy has completed: a save that changes the stored document, with a
\* database directory different from the bank's, has put every copied image
\* in place, and a save whose copy raises (shutil's SameFileError) raises
\* without creating or rewriting the JSON file, the document stored before
\* staying as it was.
C29_DocumentWrittenAfterCopies ==
    [][DbSave =>
         /\ (doc' # doc /\ db.img_dir # qb.img_dir) =>
                \A qid \in Copyable(qb, fs) :
                    _make_img_path(db.img_dir, get_question(qb, qid)) \in fs'
         /\ dbres'.exc = "SameFileError" =>
                /\ doc' = doc
                /\ (db.file_path \in fs') = (db.file_path \in fs)]_vars

\* a save raised on the copy of a later image after an earlier image had
\* been copied, with a JSON document stored from before
C29_Witness ==
    /\ dbres.op = "save" /\ dbres.exc = "SameFileError"
    /\ doc.kind = "json"
    /\ \E qid \in qb.qids :
          /\ get_question(qb, qid).img_path # None
          /\ _make_img_path(db.img_dir, get_question(qb, qid)) \in fs
          /\ _make_img_path(db.img_dir, get_question(qb, qid)) #
                 get_question(qb, qid).img_path

\* qid x comes before qid y in the order of get_qid_list() of bank b
Precedes(b, x, y) ==
    \E i, j \in DOMAIN get_qid_list(b) :
        i < j /\ get_qid_list(b)[i] = x /\ get_qid_list(b)[j] = y

\* reshape raised during the call and the exception reached the caller
ReshapeRaised ==
    /\ rres.op \in {"format_data", "_resize_images"}
    /\ rres.exc = "Exception"

\* C30: when reshape raises for some question, the exception propagates, the
\* bank's img_dir is still the old directory, and exactly the image
\* questions before the failing one in ascending qid order carry the path
\* their reshape call returned; every other question, the failing one
\* included, is as it was.
C30_ReshapeFailureLeavesPartialUpdate ==
    ReshapeRaised =>
        /\ rres.failed \in ImageQids(rres.before)
        /\ qb.img_dir = rres.before.img_dir
        /\ \A qid \in rres.before.qids :
              IF qid \in ImageQids(rres.before) /\ Precedes(rres.before, qid, rres.failed)
              THEN /\ qid \in DOMAIN rres.returned
                   /\ get_question(qb, qid).img_path = rres.returned[qid]
                   /\ get_question(qb, qid).img_path #
                          get_question(rres.before, qid).img_path
              ELSE get_question(qb, qid) = get_question(rres.before, qid)
        /\ get_qid_list(qb) = get_qid_list(rres.before)

\* reshape raised for q2 after q1's image had been reshaped
C30_Witness ==
    /\ ReshapeRaised
    /\ rres.failed = "q2"
    /\ "q1" \in ImageQids(rres.before)
    /\ get_question(qb, "q1").img_path = rres.returned["q1"]

====
